---- MODULE Spec2Model ----
(***************************************************************************)
(* Product resource of the smart grocery basket backend.                   *)
(*                                                                         *)
(* The model follows the validated revision of the service:                *)
(*   src/models/Product.js          the schema (setters, defaults,         *)
(*                                  validators, unique index, virtuals)    *)
(*   src/routes/productRoutes.js    the five handlers (lines 63-330)       *)
(*   src/index.js                   the global error handling middleware   *)
(*                                                                         *)
(* A handler runs on one thread and gives up control only at an await, so  *)
(* each action is one handler segment from an await's completion to the    *)
(* next await or to the response.  Update, delete and get-by-id have one   *)
(* await (one atomic store operation), so each is one action.  Create has  *)
(* two (findOne, save) and list has two reads issued together.             *)
(*                                                                         *)
(* JSON objects are records whose DOMAIN is the set of keys present.       *)
(* A string value is [ws, s]: the text s, surrounded by whitespace when ws *)
(* is TRUE, so that trimming is a real conversion.  Dates and query        *)
(* parameters are sequences of one-character strings.                      *)
(***************************************************************************)
EXTENDS Integers, Sequences, FiniteSets, TLC

VARIABLES
    store,      \* the products collection: documents in insertion order
    inflight,   \* per client connection: the handler suspended at an await
    last,       \* the most recent response sent (history)
    nresp,      \* number of responses sent so far
    now,        \* the server clock (timestamps)
    quota,      \* responses the run may still see in all (bound of the run)
    tally,      \* per productId: valid creates answered 201 / 409, deletes answered 200
    pristine,   \* per productId: the body it was created from, while no write touched it since
    nodeEnv,    \* process.env.NODE_ENV ("" when it is not set)
    server,     \* the process: where startServer is, the database connection, the listener
    requests,   \* the rate limiter's Map: client IP -> recorded timestamps
    arrivals    \* the requests the rate limiter has seen, in order (history)

vars == <<store, inflight, last, nresp, now, quota, tally, pristine, nodeEnv,
          server, requests, arrivals>>

----------------------------------------------------------------------------
(* Bounds of the model *)

MaxOps == 4          \* responses per run
MaxListOps == 2      \* responses per run of the listing service
MaxSeed == 5         \* products in the catalogue when listing starts
MaxAppOps == 2       \* responses per run of the application
MaxClockOps == 3     \* responses per run of the service with a running clock
MaxLiveOps == 3      \* requests per run of the service over a failing store
MaxArrivals == 5     \* requests per run of the rate limiter
LimitEnd == 6        \* the last millisecond of a run of the rate limiter

Procs == {"c1", "c2"}

\* the process once startServer has finished: connected and listening
Serving == [pc |-> "serving", db |-> "connected", listening |-> TRUE]

\* new Map()
NoRequests == [ip \in {} |-> <<>>]

----------------------------------------------------------------------------
(* Strings *)

S(x) == [ws |-> FALSE, s |-> x]
P(x) == [ws |-> TRUE, s |-> x]

\* variant: the string is left as it is
Trim_Keep(v) == v

\* String.prototype.trim
Trim(v) == [ws |-> FALSE, s |-> v.s]

\* JS truthiness of a string: only the empty string is falsy
Truthy(v) == ~(v.s = "" /\ ~v.ws)

Digits == {"0", "1", "2", "3", "4", "5", "6", "7", "8", "9"}

DigitValue(c) ==
    CASE c = "0" -> 0 [] c = "1" -> 1 [] c = "2" -> 2 [] c = "3" -> 3
      [] c = "4" -> 4 [] c = "5" -> 5 [] c = "6" -> 6 [] c = "7" -> 7
      [] c = "8" -> 8 [] c = "9" -> 9

----------------------------------------------------------------------------
(* The schema: src/models/Product.js *)

SchemaPaths ==
    {"productId", "name", "mrpPrice", "image", "stock", "category",
     "discounts", "expiryDate"}

TrimPaths == {"productId", "name", "image", "category", "discounts"}

NumberPaths == {"mrpPrice", "stock"}

\* type: Number.  A JSON value given for a Number path that does not cast to a
\* number (the string "abc", say) is written NotANumber.
NotANumber == -1000

CastFails(f, v) == f \in NumberPaths /\ v = NotANumber

Categories ==
    {"Dairy", "Fruits", "Vegetables", "Grocery", "Bakery", "Beverages",
     "Snacks", "Other"}

DefaultImage == S("https://via.placeholder.com/100")

SchemaDefaults ==
    [image |-> DefaultImage, stock |-> 0, category |-> S("Other"),
     discounts |-> S("")]

\* the setter of a path (trim: true), run on documents, updates and filters
ApplySetter(f, v) == IF f \in TrimPaths THEN Trim(v) ELSE v

\* /^\d{4}-\d{2}-\d{2}$/.test(v)
DatePattern(v) ==
    /\ Len(v) = 10
    /\ \A i \in {1, 2, 3, 4, 6, 7, 9, 10} : v[i] \in Digits
    /\ v[5] = "-"
    /\ v[8] = "-"

\* expiryDate validator: empty values are allowed
ExpiryDateValid(v) == IF v = <<>> THEN TRUE ELSE DatePattern(v)

\* min: [0, ...] on mrpPrice and stock, and mrpPrice's validator v >= 0
MinValid(v) == v >= 0

\* enum on category
EnumValid(v) == v.s \in Categories /\ ~v.ws

\* required on a String path: the empty string fails
RequiredStringValid(v) == v.s # "" \/ v.ws

RequiredPaths == {"productId", "name", "mrpPrice", "stock"}

\* every validator of path f on a value v that is present; on a document a
\* failed cast of the value counts as a failed validation of its path
PathValid(f, v) ==
    CASE f \in {"productId", "name"} -> RequiredStringValid(v)
      [] f \in NumberPaths -> ~CastFails(f, v) /\ MinValid(v)
      [] f = "category" -> EnumValid(v)
      [] f = "expiryDate" -> ExpiryDateValid(v)
      [] OTHER -> TRUE

\* document validation (save): the paths that fail; every failure is collected
ValidationErrors(d) ==
    {f \in RequiredPaths : f \notin DOMAIN d}
    \cup {f \in DOMAIN d : ~PathValid(f, d[f])}

\* variant: a schema without defaults
NewProduct_NoDefaults(body) ==
    [f \in DOMAIN body \cap SchemaPaths |-> ApplySetter(f, body[f])]

\* new Product(body): strict schema (unknown keys dropped), setters, defaults
NewProduct(body) ==
    LET given == DOMAIN body \cap SchemaPaths
        defaulted == DOMAIN SchemaDefaults \ given
    IN  [f \in given \cup defaulted |->
            IF f \in given THEN ApplySetter(f, body[f]) ELSE SchemaDefaults[f]]

\* virtual isInStock
IsInStock(d) == "stock" \in DOMAIN d /\ d.stock > 0

\* the clock counts seconds since 1970-01-01T00:00:00Z
SecondsPerDay == 86400

\* the number of the digits of v from position i to position j
RECURSIVE DigitsValue(_, _, _)
DigitsValue(v, i, j) ==
    IF i > j THEN 0 ELSE 10 * DigitsValue(v, i, j - 1) + DigitValue(v[j])

\* days from 1970-01-01 to the first day of month m (1..12) of year y
DaysToMonth(y, m) ==
    LET yy == IF m <= 2 THEN y - 1 ELSE y
        era == yy \div 400
        yoe == yy - era * 400
        mp == IF m > 2 THEN m - 3 ELSE m + 9
        doy == (153 * mp + 2) \div 5
        doe == yoe * 365 + yoe \div 4 - yoe \div 100 + doy
    IN  era * 146097 + doe - 719468

\* new Date(v) for a string v of the form YYYY-MM-DD: midnight UTC at the
\* start of that day, a day past the end of its month running on into the next
\* month; Invalid Date when the month is not 1..12 or the day is not 1..31
DateOf(v) ==
    LET y == DigitsValue(v, 1, 4)
        m == DigitsValue(v, 6, 7)
        dd == DigitsValue(v, 9, 10)
    IN  IF ~DatePattern(v) \/ m < 1 \/ m > 12 \/ dd < 1 \/ dd > 31
        THEN [invalid |-> TRUE, t |-> 0]
        ELSE [invalid |-> FALSE,
              t |-> (DaysToMonth(y, m) + dd - 1) * SecondsPerDay]

\* variant: the date is compared with the time the product was created
IsExpired_AtCreate(d, t) ==
    /\ "expiryDate" \in DOMAIN d
    /\ d.expiryDate # <<>>
    /\ ~DateOf(d.expiryDate).invalid
    /\ DateOf(d.expiryDate).t < d.createdAt

\* virtual isExpired at time t: a comparison with Invalid Date is false
IsExpired(d, t) ==
    /\ "expiryDate" \in DOMAIN d
    /\ d.expiryDate # <<>>
    /\ ~DateOf(d.expiryDate).invalid
    /\ DateOf(d.expiryDate).t < t

\* toJSON at the time of the clock: virtuals added, _id and __v removed
ToJSON(d) ==
    [f \in (DOMAIN d \ {"_id", "__v"}) \cup {"isInStock", "isExpired"} |->
        CASE f = "isInStock" -> IsInStock(d)
          [] f = "isExpired" -> IsExpired(d, now)
          [] OTHER -> d[f]]

----------------------------------------------------------------------------
(* The collection *)

\* variant: a filter that matches every document
Matching_Any(st, pid) == 1..Len(st)

\* positions of the documents whose productId is pid
Matching(st, pid) == {i \in 1..Len(st) : st[i].productId = pid}

\* Model.findOne({ productId }): the filter value is cast by the schema
FindOne(st, id) ==
    LET m == Matching(st, ApplySetter("productId", id))
    IN  IF m = {} THEN {} ELSE {st[CHOOSE i \in m : \A j \in m : i <= j]}

\* variant: the schema without unique: true
DuplicateKey_NoIndex(st, d) == FALSE

\* the unique index on productId refuses a second document with the same key
DuplicateKey(st, d) == Matching(st, d.productId) # {}

\* variant: a document with the same key is replaced, and the error reported
InsertOne_Replace(st, d) ==
    IF DuplicateKey(st, d)
    THEN [code |-> 11000,
          store |-> [i \in 1..Len(st) |->
                        IF st[i].productId = d.productId THEN d ELSE st[i]]]
    ELSE [code |-> 0, store |-> Append(st, d)]

\* the insert of save(): refused with code 11000 by the unique index, the
\* collection left as it was, or else the document added
InsertOne(st, d) ==
    IF DuplicateKey(st, d)
    THEN [code |-> 11000, store |-> st]
    ELSE [code |-> 0, store |-> Append(st, d)]

\* variant: the oldest document is removed, whichever matched
RemoveAt_Head(st, i) == Tail(st)

\* variant: the document is returned but not removed
RemoveAt_Keep(st, i) == st

\* findOneAndDelete removes the matched document
RemoveAt(st, i) == [j \in 1..(Len(st) - 1) |-> IF j < i THEN st[j] ELSE st[j + 1]]

----------------------------------------------------------------------------
(* findOneAndUpdate(filter, update, { new: true, runValidators: true }) *)

NoKeys == [f \in {} |-> 0]

Clause(upd, op) == IF op \in DOMAIN upd THEN upd[op] ELSE NoKeys

\* the top-level keys that are not operators are $set sugar; strict schema
SetPart(upd) ==
    [f \in DOMAIN upd \cap SchemaPaths |-> ApplySetter(f, upd[f])]

\* the update is cast to the schema before it is validated or sent: a value of
\* $set that does not cast throws CastError
UpdateCastError(upd) ==
    \E f \in DOMAIN SetPart(upd) : CastFails(f, SetPart(upd)[f])

\* update validators run on the values of $set only; $inc and $rename carry
\* no value to validate
UpdateValidationErrors(upd) ==
    {f \in DOMAIN SetPart(upd) : ~PathValid(f, SetPart(upd)[f])}

\* the store refuses an update that names one path in two operators
UpdateConflict(upd) ==
    LET inc == Clause(upd, "$inc")
        ren == Clause(upd, "$rename")
        renamed == DOMAIN ren \cup {ren[f] : f \in DOMAIN ren}
    IN  \/ DOMAIN SetPart(upd) \cap (DOMAIN inc \cup renamed) # {}
        \/ DOMAIN inc \cap renamed # {}

ApplySet(d, set) ==
    [f \in DOMAIN d \cup DOMAIN set |-> IF f \in DOMAIN set THEN set[f] ELSE d[f]]

ApplyInc(d, inc) ==
    [f \in DOMAIN d \cup DOMAIN inc |->
        IF f \in DOMAIN inc
        THEN (IF f \in DOMAIN d THEN d[f] ELSE 0) + inc[f]
        ELSE d[f]]

ApplyRename(d, ren) ==
    LET moved == {f \in DOMAIN ren : f \in DOMAIN d}
        added == {ren[f] : f \in moved}
    IN  [g \in (DOMAIN d \ moved) \cup added |->
            IF g \in added THEN d[CHOOSE f \in moved : ren[f] = g] ELSE d[g]]

\* the document after the update; timestamps: true sets updatedAt
ApplyUpdate(d, upd, t) ==
    ApplySet(
        ApplyRename(ApplyInc(ApplySet(d, SetPart(upd)), Clause(upd, "$inc")),
                    Clause(upd, "$rename")),
        [updatedAt |-> t])

----------------------------------------------------------------------------
(* Requests of the model *)

IdA == S("a")
IdAPad == P("a")
IdB == S("b")
IdBlank == P("")

PathIds == {IdA, IdAPad, IdB, IdBlank}

Keys == {"a", "b"}

Date2020 == <<"2", "0", "2", "0", "-", "0", "1", "-", "3", "1">>

Base(id) == [productId |-> id, name |-> S("Milk"), mrpPrice |-> 1, stock |-> 0]

CreateBodies ==
    { Base(IdA),
      [productId |-> IdAPad, name |-> P("Curd"), mrpPrice |-> 0, stock |-> 2,
       category |-> P("Dairy"), discounts |-> S("10%"),
       expiryDate |-> Date2020, barcode |-> S("890")],
      ("image" :> P("tea.png")) @@ Base(IdB),
      ("stock" :> -1) @@ Base(IdB),
      ("category" :> S("Sweets")) @@ Base(IdA),
      [productId |-> IdA, name |-> S("Milk")] }

UpdateBodies ==
    { [stock |-> 3],
      [stock |-> -1],
      [mrpPrice |-> -1, category |-> S("Sweets")],
      [category |-> P("Bakery"), name |-> P("Ghee")],
      [productId |-> IdB, stock |-> 3],
      [productId |-> S(""), stock |-> 5],
      [stock |-> NotANumber],
      ("$inc" :> [stock |-> -1]),
      ("$rename" :> [discounts |-> "category"]),
      ("$rename" :> [name |-> "productId"]) }

----------------------------------------------------------------------------
(* Responses and history *)

Key(id) == Trim(id).s

Idle == [pc |-> "idle"]

Budget ==
    nresp + Cardinality({p \in Procs : inflight[p].pc # "idle"}) < quota

\* the part of a response that only a listing fills
NoList ==
    [query |-> NoKeys, skip |-> 0, limit |-> 0, items |-> <<>>,
     pagination |-> NoKeys, raced |-> FALSE]

\* res.status(status).json({ success, error, details, data }); via tells which
\* branch of the handler answered
Response(op, id, body, status, success, error, details, data, via) ==
    [n |-> nresp + 1, op |-> op, id |-> id, body |-> body, status |-> status,
     success |-> success, error |-> error, details |-> details, data |-> data,
     via |-> via, stack |-> FALSE, list |-> NoList]

Respond(r) ==
    /\ last' = r
    /\ nresp' = nresp + 1

\* variant: no presence check
MissingRequired_None(body) == FALSE

\* POST: the presence check of lines 75-82
MissingRequired(body) ==
    \/ "productId" \notin DOMAIN body
    \/ ~Truthy(body.productId)
    \/ "name" \notin DOMAIN body
    \/ ~Truthy(body.name)
    \/ "mrpPrice" \notin DOMAIN body
    \/ "stock" \notin DOMAIN body

\* a body that passes the presence check and the schema's validation
ValidInput(body) ==
    /\ ~MissingRequired(body)
    /\ ValidationErrors(NewProduct(body)) = {}

Count(k, field) ==
    IF k \in Keys
    THEN [tally EXCEPT ![k][field] = @ + 1]
    ELSE tally

Forget(k) == IF k \in Keys THEN [pristine EXCEPT ![k] = {}] ELSE pristine

----------------------------------------------------------------------------
(* POST /api/products *)

\* lines 73-91: presence check, then the findOne pre-check
CreatePreCheck(p, body) ==
    /\ inflight[p].pc = "idle"
    /\ Budget
    /\ IF MissingRequired(body)
       THEN /\ Respond(Response("create", S(""), body, 400, FALSE,
                    "Missing required fields", {}, {}, "presence"))
            /\ UNCHANGED <<store, inflight, now, quota, nodeEnv, tally, pristine, server, requests, arrivals>>
       ELSE IF FindOne(store, body.productId) # {}
       THEN /\ Respond(Response("create", body.productId, body, 409, FALSE,
                    "Product with this ID already exists", {}, {}, "precheck"))
            /\ tally' = IF ValidInput(body)
                        THEN Count(Key(body.productId), "conflict")
                        ELSE tally
            /\ UNCHANGED <<store, inflight, now, quota, nodeEnv, pristine, server, requests, arrivals>>
       ELSE /\ inflight' = [inflight EXCEPT ![p] = [pc |-> "save", body |-> body]]
            /\ UNCHANGED <<store, last, nresp, now, quota, nodeEnv, tally, pristine, server, requests, arrivals>>

\* lines 93-126: new Product(req.body).save() and the catch block
CreateSave(p) ==
    /\ inflight[p].pc = "save"
    /\ LET body == inflight[p].body
           doc == NewProduct(body)
           errs == ValidationErrors(doc)
           saved == ApplySet(doc, [createdAt |-> now, updatedAt |-> now])
           inserted == InsertOne(store, saved)
       IN  IF errs # {}
           THEN /\ Respond(Response("create", body.productId, body, 400, FALSE,
                        "Validation failed", errs, {}, "validation"))
                /\ UNCHANGED <<store, tally, pristine>>
           ELSE IF inserted.code = 11000
           THEN /\ Respond(Response("create", body.productId, body, 409, FALSE,
                        "Product with this ID already exists", {}, {}, "index"))
                /\ tally' = Count(doc.productId.s, "conflict")
                /\ store' = inserted.store
                /\ UNCHANGED pristine
           ELSE /\ store' = inserted.store
                /\ Respond(Response("create", body.productId, body, 201, TRUE,
                        "", {}, {ToJSON(saved)}, "saved"))
                /\ tally' = Count(doc.productId.s, "ok")
                /\ pristine' = IF doc.productId.s \in Keys
                               THEN [pristine EXCEPT ![doc.productId.s] = {body}]
                               ELSE pristine
    /\ inflight' = [inflight EXCEPT ![p] = Idle]
    /\ UNCHANGED <<now, quota, nodeEnv, server, requests, arrivals>>

----------------------------------------------------------------------------
(* GET /api/products/:id *)

GetById(id) ==
    /\ Budget
    /\ LET found == FindOne(store, Trim(id))
       IN  IF id.s = ""
           THEN Respond(Response("get", id, NoKeys, 400, FALSE,
                    "Product ID is required", {}, {}, ""))
           ELSE IF found = {}
           THEN Respond(Response("get", id, NoKeys, 404, FALSE,
                    "Product not found", {}, {}, ""))
           ELSE Respond(Response("get", id, NoKeys, 200, TRUE,
                    "", {}, {ToJSON(d) : d \in found}, ""))
    /\ UNCHANGED <<store, inflight, now, quota, nodeEnv, tally, pristine, server, requests, arrivals>>

----------------------------------------------------------------------------
(* PUT /api/products/:id *)

\* variant: the guard of line 240 left out
ChangesProductId_Never(id, body) == FALSE

\* line 240: req.body.productId && req.body.productId !== id
ChangesProductId(id, body) ==
    /\ "productId" \in DOMAIN body
    /\ Truthy(body.productId)
    /\ body.productId # id

Update(id, body) ==
    /\ Budget
    /\ LET pid == Trim(id)
           upd == ("productId" :> pid) @@ body
           errs == UpdateValidationErrors(upd)
           m == Matching(store, ApplySetter("productId", pid))
           i == CHOOSE j \in m : \A k \in m : j <= k
           updated == ApplyUpdate(store[i], upd, now)
       IN  IF id.s = ""
           THEN /\ Respond(Response("update", id, body, 400, FALSE,
                        "Product ID is required", {}, {}, ""))
                /\ UNCHANGED <<store, pristine>>
           ELSE IF ChangesProductId(id, body)
           THEN /\ Respond(Response("update", id, body, 400, FALSE,
                        "Cannot change product ID", {}, {}, ""))
                /\ UNCHANGED <<store, pristine>>
           ELSE IF UpdateCastError(upd)
           THEN /\ Respond(Response("update", id, body, 500, FALSE,
                        "Internal server error while updating product", {}, {}, "cast"))
                /\ UNCHANGED <<store, pristine>>
           ELSE IF errs # {}
           THEN /\ Respond(Response("update", id, body, 400, FALSE,
                        "Validation failed", errs, {}, ""))
                /\ UNCHANGED <<store, pristine>>
           ELSE IF UpdateConflict(upd)
           THEN /\ Respond(Response("update", id, body, 500, FALSE,
                        "Internal server error while updating product", {}, {}, ""))
                /\ UNCHANGED <<store, pristine>>
           ELSE IF m = {}
           THEN /\ Respond(Response("update", id, body, 404, FALSE,
                        "Product not found", {}, {}, ""))
                /\ UNCHANGED <<store, pristine>>
           ELSE /\ store' = [store EXCEPT ![i] = updated]
                /\ Respond(Response("update", id, body, 200, TRUE,
                        "", {}, {ToJSON(updated)}, ""))
                /\ pristine' = Forget(pid.s)
    /\ UNCHANGED <<inflight, now, quota, nodeEnv, tally, server, requests, arrivals>>

----------------------------------------------------------------------------
(* DELETE /api/products/:id *)

Delete(id) ==
    /\ Budget
    /\ LET pid == Trim(id)
           m == Matching(store, ApplySetter("productId", pid))
           i == CHOOSE j \in m : \A k \in m : j <= k
       IN  IF id.s = ""
           THEN /\ Respond(Response("delete", id, NoKeys, 400, FALSE,
                        "Product ID is required", {}, {}, ""))
                /\ UNCHANGED <<store, tally, pristine>>
           ELSE IF m = {}
           THEN /\ Respond(Response("delete", id, NoKeys, 404, FALSE,
                        "Product not found", {}, {}, ""))
                /\ UNCHANGED <<store, tally, pristine>>
           ELSE /\ store' = RemoveAt(store, i)
                /\ Respond(Response("delete", id, NoKeys, 200, TRUE,
                        "", {}, {ToJSON(store[i])}, ""))
                /\ tally' = Count(pid.s, "deleted")
                /\ pristine' = Forget(pid.s)
    /\ UNCHANGED <<inflight, now, quota, nodeEnv, server, requests, arrivals>>

----------------------------------------------------------------------------
(* The service: any client may send any request at any time *)

NoResponse ==
    [n |-> 0, op |-> "none", id |-> S(""), body |-> NoKeys, status |-> 0,
     success |-> FALSE, stack |-> FALSE, error |-> "", details |-> {}, data |-> {}, via |-> "", list |-> NoList]

Init ==
    /\ store = <<>>
    /\ inflight = [p \in Procs |-> Idle]
    /\ last = NoResponse
    /\ nresp = 0
    /\ now = 0
    /\ quota = MaxOps
    /\ nodeEnv = "development"
    /\ server = Serving
    /\ requests = NoRequests
    /\ arrivals = <<>>
    /\ tally = [k \in Keys |-> [ok |-> 0, conflict |-> 0, deleted |-> 0]]
    /\ pristine = [k \in Keys |-> {}]

Next ==
    \/ \E p \in Procs, body \in CreateBodies : CreatePreCheck(p, body)
    \/ \E p \in Procs : CreateSave(p)
    \/ \E id \in PathIds : GetById(id)
    \/ \E id \in PathIds, body \in UpdateBodies : Update(id, body)
    \/ \E id \in PathIds : Delete(id)

Spec == Init /\ [][Next]_vars

----------------------------------------------------------------------------
(* GET /api/products: parsing the query *)

DefaultPage == 1
DefaultLimit == 50

Whitespace == {" "}

RECURSIVE SkipWhitespace(_)
SkipWhitespace(s) ==
    IF s # <<>> /\ Head(s) \in Whitespace THEN SkipWhitespace(Tail(s)) ELSE s

\* the value of the longest prefix of digits of s, after the digits read so far
RECURSIVE DigitPrefix(_, _)
DigitPrefix(s, acc) ==
    IF s # <<>> /\ Head(s) \in Digits
    THEN DigitPrefix(Tail(s), 10 * acc + DigitValue(Head(s)))
    ELSE acc

\* parseInt(s): leading whitespace, an optional sign, then the longest prefix
\* of digits; NaN when there is no digit
ParseInt(s) ==
    LET t == SkipWhitespace(s)
        signed == t # <<>> /\ Head(t) \in {"-", "+"}
        u == IF signed THEN Tail(t) ELSE t
        magnitude == DigitPrefix(u, 0)
    IN  IF u = <<>> \/ Head(u) \notin Digits
        THEN [nan |-> TRUE, v |-> 0]
        ELSE [nan |-> FALSE,
              v |-> IF signed /\ Head(t) = "-" THEN -magnitude ELSE magnitude]

\* line 136: destructuring defaults apply to absent keys only
PageOf(q) ==
    IF "page" \in DOMAIN q THEN ParseInt(q.page) ELSE [nan |-> FALSE, v |-> DefaultPage]

LimitOf(q) ==
    IF "limit" \in DOMAIN q THEN ParseInt(q.limit) ELSE [nan |-> FALSE, v |-> DefaultLimit]

\* variant: an offset that forgets the page is 1-based
SkipOf_ZeroBased(q) == PageOf(q).v * LimitOf(q).v

\* line 154
SkipOf(q) == (PageOf(q).v - 1) * LimitOf(q).v

\* lines 139-147: the filter, as a predicate on documents
Matches(d, q) ==
    /\ ("category" \in DOMAIN q /\ Truthy(q.category)) =>
          ("category" \in DOMAIN d /\ d.category = ApplySetter("category", q.category))
    /\ ("inStock" \in DOMAIN q /\ q.inStock = S("true")) =>
          ("stock" \in DOMAIN d /\ d.stock > 0)

MatchingDocs(st, q) == {i \in 1..Len(st) : Matches(st[i], q)}

\* Math.ceil(total / limit), as JSON carries it (Infinity and NaN become null)
Pages(total, limit) ==
    IF limit = 0 THEN [null |-> TRUE, v |-> 0]
    ELSE IF limit > 0
         THEN [null |-> FALSE, v |-> (total + limit - 1) \div limit]
         ELSE [null |-> FALSE, v |-> -(total \div (-limit))]

----------------------------------------------------------------------------
(* GET /api/products: the two reads *)

\* sort({ createdAt: -1 }): the orders of the positions in, newest first;
\* documents with equal createdAt come in any order
RECURSIVE SortedOrders(_, _)
SortedOrders(st, in) ==
    IF in = {} THEN {<<>>}
    ELSE LET newest == {i \in in : \A j \in in : st[i].createdAt >= st[j].createdAt}
         IN  UNION {{<<i>> \o rest : rest \in SortedOrders(st, in \ {i})} : i \in newest}

\* cursor.limit(n): 0 is no limit, a negative n is a limit of -n
Take(n, avail) ==
    LET m == IF n < 0 THEN -n ELSE n
    IN  IF n = 0 \/ m > avail THEN avail ELSE m

\* find(filter).skip(skip).limit(limit).sort(...) over the order ord
Page(st, ord, skip, limit) ==
    LET avail == IF Len(ord) > skip THEN Len(ord) - skip ELSE 0
    IN  [k \in 1..Take(limit, avail) |-> ToJSON(st[ord[skip + k]])]

ListResponse(q, status, success, error, items, total, raced) ==
    [Response("list", S(""), NoKeys, status, success, error, {}, {}, "") EXCEPT
        !.list = [query |-> q, skip |-> SkipOf(q), limit |-> LimitOf(q).v,
                  items |-> items,
                  pagination |->
                      IF status = 200
                      THEN [page |-> PageOf(q).v, limit |-> LimitOf(q).v,
                            total |-> total,
                            pages |-> Pages(total, LimitOf(q).v)]
                      ELSE NoKeys,
                  raced |-> raced]]

\* lines 136-163: the query is parsed and both reads are issued
ListBegin(p, q) ==
    /\ inflight[p].pc = "idle"
    /\ Budget
    /\ ~PageOf(q).nan
    /\ ~LimitOf(q).nan
    /\ inflight' = [inflight EXCEPT ![p] =
            [pc |-> "list", query |-> q, reads |-> {}, items |-> <<>>,
             total |-> 0, seen |-> <<>>]]
    /\ UNCHANGED <<store, last, nresp, now, quota, nodeEnv, tally, pristine, server, requests, arrivals>>

\* the find completes; the store refuses a negative skip
ListFind(p) ==
    /\ inflight[p].pc = "list"
    /\ "find" \notin inflight[p].reads
    /\ LET r == inflight[p]
           q == r.query
       IN  IF SkipOf(q) < 0
           THEN /\ Respond(ListResponse(q, 500, FALSE,
                        "Internal server error while fetching products", <<>>, 0, FALSE))
                /\ inflight' = [inflight EXCEPT ![p] = Idle]
           ELSE \E ord \in SortedOrders(store, MatchingDocs(store, q)) :
                  LET items == Page(store, ord, SkipOf(q), LimitOf(q).v)
                  IN  IF "count" \in r.reads
                      THEN /\ Respond(ListResponse(q, 200, TRUE, "", items, r.total,
                                                   r.seen # store))
                           /\ inflight' = [inflight EXCEPT ![p] = Idle]
                      ELSE /\ inflight' = [inflight EXCEPT ![p] =
                                  [r EXCEPT !.reads = {"find"}, !.items = items,
                                            !.seen = store]]
                           /\ UNCHANGED <<last, nresp>>
    /\ UNCHANGED <<store, now, quota, nodeEnv, tally, pristine, server, requests, arrivals>>

\* the countDocuments completes
ListCount(p) ==
    /\ inflight[p].pc = "list"
    /\ "count" \notin inflight[p].reads
    /\ LET r == inflight[p]
           q == r.query
           total == Cardinality(MatchingDocs(store, q))
       IN  IF "find" \in r.reads
           THEN /\ Respond(ListResponse(q, 200, TRUE, "", r.items, total, r.seen # store))
                /\ inflight' = [inflight EXCEPT ![p] = Idle]
           ELSE /\ inflight' = [inflight EXCEPT ![p] =
                       [r EXCEPT !.reads = {"count"}, !.total = total, !.seen = store]]
                /\ UNCHANGED <<last, nresp>>
    /\ UNCHANGED <<store, now, quota, nodeEnv, tally, pristine, server, requests, arrivals>>

----------------------------------------------------------------------------
(* The listing service over a catalogue that earlier creates have filled *)

SeedIds == <<S("p1"), S("p2"), S("p3"), S("p4"), S("p5"), S("p6"), S("p7")>>

SeedCategories == <<S("Dairy"), S("Bakery"), S("Dairy"), S("Other"), S("Dairy"),
                    S("Bakery"), S("Dairy")>>

\* the body of the i-th create
SeedBody(i) ==
    [productId |-> SeedIds[i], name |-> S("Item"), mrpPrice |-> i,
     stock |-> i % 2, category |-> SeedCategories[i]]

\* the time of the i-th create: one per tick of the clock, except that the
\* creates tie and tie + 1 fall on the same tick (tie = 0: none do)
SeedTime(i, tie) == IF tie > 0 /\ i > tie THEN i - 1 ELSE i

\* the collection after n creates
Seeded(n, tie) ==
    [i \in 1..n |->
        ApplySet(NewProduct(SeedBody(i)),
                 [createdAt |-> SeedTime(i, tie), updatedAt |-> SeedTime(i, tie)])]

Queries ==
    { NoKeys,
      [page |-> <<"1">>, limit |-> <<"2">>],
      [page |-> <<"2">>, limit |-> <<" ", "2", "x">>],
      [page |-> <<"3">>, limit |-> <<"2">>],
      [page |-> <<"0">>],
      [page |-> <<"2">>, limit |-> <<"-", "2">>],
      [limit |-> <<"0">>],
      [limit |-> <<"1", "0", "1">>],
      [limit |-> <<"3">>, category |-> P("Dairy")],
      [page |-> <<"2">>, limit |-> <<"1">>, inStock |-> S("true")] }

\* in the listing service one connection lists and the other writes
Lister == "c1"
Writer == "c2"

ListWrites == {Base(IdA)}

InitList ==
    /\ \E n \in 0..MaxSeed :
         \E tie \in 0..(IF n = 0 THEN 0 ELSE n - 1) :
            /\ store = Seeded(n, tie)
            /\ now \in {SeedTime(n, tie), SeedTime(n, tie) + 1}
    /\ inflight = [p \in Procs |-> Idle]
    /\ last = NoResponse
    /\ nresp = 0
    /\ quota = MaxListOps
    /\ nodeEnv = "development"
    /\ server = Serving
    /\ requests = NoRequests
    /\ arrivals = <<>>
    /\ tally = [k \in Keys |-> [ok |-> 0, conflict |-> 0, deleted |-> 0]]
    /\ pristine = [k \in Keys |-> {}]

NextList ==
    \/ \E q \in Queries : ListBegin(Lister, q)
    \/ ListFind(Lister)
    \/ ListCount(Lister)
    \/ \E body \in ListWrites : CreatePreCheck(Writer, body)
    \/ CreateSave(Writer)
    \/ Delete(SeedIds[1])

SpecList == InitList /\ [][NextList]_vars

----------------------------------------------------------------------------
(* Properties *)

\* a step that sends the response of an op request
Answers(op) == last'.n # last.n /\ last'.op = op

Stored(st, id) == Matching(st, Trim(id)) # {}

\* C1: when exactly two valid create requests for one productId have been
\* answered and that productId was never deleted, one was answered 201, the
\* other 409, and exactly one product with that productId is stored.
C1_OneCreatedOneConflict ==
    \A k \in Keys :
        (tally[k].deleted = 0 /\ tally[k].ok + tally[k].conflict = 2)
            => /\ tally[k].ok = 1
               /\ tally[k].conflict = 1
               /\ Cardinality(Matching(store, S(k))) = 1

\* both creates passed the pre-check; the second save was refused by the index
C1_Witness ==
    /\ last.op = "create"
    /\ last.via = "index"
    /\ last.status = 409
    /\ tally[Key(last.id)].ok = 1
    /\ tally[Key(last.id)].conflict = 1
    /\ tally[Key(last.id)].deleted = 0

C2_Unique ==
    \A i, j \in 1..Len(store) :
        i # j => store[i].productId # store[j].productId

\* a step leaves the productId of every document that stays in the collection
C2_Immutable ==
    /\ Len(store') >= Len(store) =>
         \A i \in 1..Len(store) :
            /\ "productId" \in DOMAIN store'[i]
            /\ store'[i].productId = store[i].productId
    /\ Len(store') < Len(store) =>
         \A i \in 1..Len(store') :
            \E j \in 1..Len(store) : store'[i] = store[j]

\* C2: in every reachable state no two stored products share a productId, and
\* no step changes the productId of a stored product.
C2_ProductIdUniqueImmutable == [](C2_Unique) /\ [][C2_Immutable]_vars

\* an update that names its own productId in the body succeeded next to
\* another stored product
C2_Witness ==
    /\ last.op = "update"
    /\ last.status = 200
    /\ "productId" \in DOMAIN last.body
    /\ Len(store) = 2

\* C3 as stated: every update of a stored product whose body productId differs
\* from the path id is answered 400 and changes nothing.
C3_Original ==
    [][(/\ Answers("update")
        /\ Stored(store, last'.id)
        /\ "productId" \in DOMAIN last'.body
        /\ last'.body.productId # last'.id)
          => (last'.status = 400 /\ store' = store)]_vars

\* C3 amended: an update whose body carries a non-empty productId different
\* from the path id is answered 400 and changes nothing; an update whose body
\* productId is absent, empty or equal to the path id is not answered
\* "Cannot change product ID".
C3_MismatchRejected ==
    [][Answers("update") =>
        IF /\ "productId" \in DOMAIN last'.body
           /\ last'.body.productId # S("")
           /\ last'.body.productId # last'.id
        THEN last'.status = 400 /\ store' = store
        ELSE last'.error # "Cannot change product ID"]_vars

\* the product at the path id is stored and the update was refused
C3_Witness ==
    /\ last.op = "update"
    /\ last.error = "Cannot change product ID"
    /\ last.status = 400
    /\ Stored(store, last.id)

\* C4: every stored product has stock >= 0 and mrpPrice >= 0.
C4_NeverNegative ==
    \A i \in 1..Len(store) :
        /\ "stock" \in DOMAIN store[i] /\ store[i].stock >= 0
        /\ "mrpPrice" \in DOMAIN store[i] /\ store[i].mrpPrice >= 0

\* C5: every stored product's category is a member of the enumeration.
C5_CategoryInEnum ==
    \A i \in 1..Len(store) :
        /\ "category" \in DOMAIN store[i]
        /\ store[i].category.s \in Categories
        /\ ~store[i].category.ws

C10_Defaults ==
    [image |-> S("https://via.placeholder.com/100"), category |-> S("Other"),
     discounts |-> S("")]

C10_Submitted == {"productId", "name", "mrpPrice", "stock", "image", "category",
                  "discounts", "expiryDate"}

\* the get of a product that no write touched since its create
C10_FreshGet(b) ==
    /\ last.op = "get"
    /\ last.status = 200
    /\ Key(last.id) \in Keys
    /\ b \in pristine[Key(last.id)]

\* C10 as stated: the get returns the submitted values unchanged.
C10_Original ==
    \A b \in CreateBodies : C10_FreshGet(b) =>
        \A d \in last.data :
            /\ \A f \in DOMAIN b \cap C10_Submitted :
                 f \in DOMAIN d /\ d[f] = b[f]
            /\ \A f \in DOMAIN C10_Defaults \ DOMAIN b :
                 f \in DOMAIN d /\ d[f] = C10_Defaults[f]

\* C10 amended: the get returns the submitted values, the string fields
\* productId, name, image, category and discounts with surrounding whitespace
\* removed, and the defaults for the optional fields that were absent.
C10_RoundTrip ==
    \A b \in CreateBodies : C10_FreshGet(b) =>
        /\ last.data # {}
        /\ \A d \in last.data :
            /\ \A f \in DOMAIN b \cap C10_Submitted :
                 /\ f \in DOMAIN d
                 /\ d[f] = IF f \in {"productId", "name", "image", "category", "discounts"}
                           THEN [ws |-> FALSE, s |-> b[f].s]
                           ELSE b[f]
            /\ \A f \in DOMAIN C10_Defaults \ DOMAIN b :
                 f \in DOMAIN d /\ d[f] = C10_Defaults[f]

\* a product created from a body with padded strings and no image is read back
C10_Witness ==
    \E b \in CreateBodies :
        /\ C10_FreshGet(b)
        /\ b.name.ws
        /\ "image" \notin DOMAIN b

----------------------------------------------------------------------------
(* Properties of the listing *)

\* config.maxPageSize
MaxPageSize == 100

\* a successful listing between whose two reads the collection did not change
C6_QuietList ==
    /\ last.op = "list"
    /\ last.status = 200
    /\ ~last.list.raced
    /\ PageOf(last.list.query).v >= 1
    /\ LimitOf(last.list.query).v >= 1

\* the matching products created after, and not before, the one at position i
C6_Newer(in, i) == {j \in in : store[j].createdAt > store[i].createdAt}

C6_NotOlder(in, i) == {j \in in : store[j].createdAt >= store[i].createdAt}

\* the product at position i of the collection can stand at place r (from 1)
\* of a newest-first order of the matching products
C6_AtPlace(in, i, r) ==
    /\ Cardinality(C6_Newer(in, i)) < r
    /\ r <= Cardinality(C6_NotOlder(in, i))

C6_Min(a, b) == IF a < b THEN a ELSE b

\* C6: a listing with page p >= 1 and limit L >= 1 over N matching products,
\* with no write between its reads, reports pages = ceil(N / L) and returns
\* min(L, max(0, N - (p-1)*L)) items, which are the products at positions
\* (p-1)*L + 1 onwards of a newest-first order of the matching products.
C6_Pagination ==
    C6_QuietList =>
        LET q == last.list.query
            pg == PageOf(q).v
            lm == LimitOf(q).v
            in == MatchingDocs(store, q)
            n == Cardinality(in)
            offset == (pg - 1) * lm
            left == IF n > offset THEN n - offset ELSE 0
            items == last.list.items
            pages == last.list.pagination.pages
        IN  /\ ~pages.null
            /\ pages.v * lm >= n
            /\ (pages.v - 1) * lm < n
            /\ last.list.pagination.total = n
            /\ Len(items) = C6_Min(lm, left)
            /\ \A k, l \in 1..Len(items) :
                  k # l => items[k].productId # items[l].productId
            /\ \A k \in 1..Len(items) :
                  \E i \in in :
                     /\ items[k] = ToJSON(store[i])
                     /\ C6_AtPlace(in, i, offset + k)

\* page 3 of 5 products, 2 to a page: the one remaining item, pages = 3
C6_Witness ==
    /\ C6_QuietList
    /\ Cardinality(MatchingDocs(store, last.list.query)) = 5
    /\ PageOf(last.list.query).v = 3
    /\ LimitOf(last.list.query).v = 2
    /\ Len(last.list.items) = 1
    /\ last.list.pagination.pages.v = 3

\* C7: the skip and the limit handed to the store are never negative, and a
\* requested page or limit <= 0 is reported as its default.
C7_Normalized ==
    last.op = "list" =>
        /\ last.list.skip >= 0
        /\ last.list.limit >= 0
        /\ PageOf(last.list.query).v <= 0 =>
              (last.status = 200 /\ last.list.pagination.page = DefaultPage)
        /\ LimitOf(last.list.query).v <= 0 =>
              (last.status = 200 /\ last.list.pagination.limit = DefaultLimit)

\* C8: the limit handed to the store and the number of products returned
\* never exceed the maximum page size.
C8_LimitCapped ==
    last.op = "list" =>
        /\ last.list.limit <= MaxPageSize
        /\ Len(last.list.items) <= MaxPageSize

----------------------------------------------------------------------------
(* Properties of the error responses *)

\* the required fields the presence check of create finds missing
C11_Missing(body) ==
    {f \in {"productId", "name"} : f \notin DOMAIN body \/ ~Truthy(body[f])}
    \cup {f \in {"mrpPrice", "stock"} : f \notin DOMAIN body}

\* the fields of a write that violate a rule of the schema
C11_Violated ==
    IF last.op = "create"
    THEN C11_Missing(last.body) \cup ValidationErrors(NewProduct(last.body))
    ELSE UpdateValidationErrors(("productId" :> Trim(last.id)) @@ last.body)

\* C11: every 400 response that reports a failed validation of a create or an
\* update (missing, empty or invalid fields) carries a details list that names
\* exactly the violated fields, all of them.
C11_DetailsComplete ==
    (/\ last.op \in {"create", "update"}
     /\ last.status = 400
     /\ last.error \in {"Validation failed", "Missing required fields"})
        => last.details = C11_Violated

----------------------------------------------------------------------------
(* Properties of update, delete and get *)

\* the position of the product a request addresses
C12_Target(id) == CHOOSE i \in Matching(store, Trim(id)) : TRUE

\* C12: a successful update leaves every other stored product as it was, keeps
\* the productId of its target equal to the (trimmed) path id, and keeps the
\* value of every field of the target that is not a key of the request body
\* (updatedAt, which the system manages, apart).
C12_OnlyBodyFields ==
    [][(Answers("update") /\ last'.status = 200) =>
        LET i == C12_Target(last'.id)
        IN  /\ Len(store') = Len(store)
            /\ \A j \in 1..Len(store) : j # i => store'[j] = store[j]
            /\ "productId" \in DOMAIN store'[i]
            /\ store'[i].productId = Trim(last'.id)
            /\ \A f \in DOMAIN store[i] \ (DOMAIN last'.body \cup {"updatedAt"}) :
                  /\ f \in DOMAIN store'[i]
                  /\ store'[i][f] = store[i][f]]_vars

\* no stored product has the (trimmed) id
C13_Absent(st, id) == \A i \in 1..Len(st) : st[i].productId # Trim(id)

\* a body of product fields only, whose productId (if any) is the path id and
\* whose values are valid for their fields
C13_ValidPatch(id, body) ==
    /\ DOMAIN body \subseteq SchemaPaths
    /\ "productId" \in DOMAIN body => body.productId = id
    /\ \A f \in DOMAIN body : PathValid(f, IF f \in TrimPaths THEN Trim(body[f]) ELSE body[f])

\* C13 as stated: every update addressed to a (non-blank) id that is not
\* stored is answered 404 and leaves the store as it was.
C13_Original ==
    [][(Answers("update") /\ last'.id.s # "" /\ C13_Absent(store, last'.id))
          => (last'.status = 404 /\ store' = store)]_vars

\* C13 amended: an update addressed to a (non-blank) id that is not stored
\* never succeeds and never changes the store (no upsert); it is answered 404
\* when its body is a valid patch, and with an error status in every case.
C13_NoUpsert ==
    [][(Answers("update") /\ last'.id.s # "" /\ C13_Absent(store, last'.id))
          => /\ store' = store
             /\ last'.status \in {400, 404, 500}
             /\ C13_ValidPatch(last'.id, last'.body) => last'.status = 404]_vars

\* a valid patch addressed to an id that is not stored, next to a stored product
C13_Witness ==
    /\ last.op = "update"
    /\ last.status = 404
    /\ C13_ValidPatch(last.id, last.body)
    /\ Len(store) = 1
    /\ C13_Absent(store, last.id)

----------------------------------------------------------------------------
(* Properties of the listing's total *)

\* the stored products a query asks for: category equal to the one given, and
\* stock > 0 when inStock is true
C14_Asked(q) ==
    {i \in 1..Len(store) :
        /\ ("category" \in DOMAIN q /\ q.category.s # "") =>
              store[i].category.s = q.category.s
        /\ ("inStock" \in DOMAIN q /\ q.inStock.s = "true") => store[i].stock > 0}

\* C14: every listing with no write between its reads is answered 200 with
\* total = the number of stored products the query asks for, whatever its page
\* and limit; when there is none, the list is empty and total is 0.
C14_TotalCountsMatches ==
    (last.op = "list" /\ ~last.list.raced) =>
        /\ last.status = 200
        /\ "total" \in DOMAIN last.list.pagination
        /\ last.list.pagination.total = Cardinality(C14_Asked(last.list.query))
        /\ C14_Asked(last.list.query) = {} => last.list.items = <<>>

----------------------------------------------------------------------------
(* Properties of the response envelope *)

\* C15: every response has a boolean success that is true exactly for 200 and
\* 201; a success is 201 for create and 200 for the other operations; a
\* failure is 400, 404 or 409, where 409 answers only a create and 404 only a
\* request addressed to an id; and, the store never failing here, no response
\* is 500.
C15_StatusByOutcome ==
    last.op # "none" =>
        /\ last.success \in BOOLEAN
        /\ last.success <=> last.status \in {200, 201}
        /\ last.status \in {200, 201, 400, 404, 409}
        /\ last.status = 201 <=> (last.op = "create" /\ last.success)
        /\ last.status = 409 => last.op = "create"
        /\ last.status = 404 => last.op \in {"get", "update", "delete"}

----------------------------------------------------------------------------
(* src/index.js: the application around the router *)

NodeEnvs == {"development", "production", "test", "staging", ""}

\* the errors that middleware hands to next(): express.json() on a body that
\* is not JSON, or that is larger than its limit
AppErrors ==
    { [status |-> 400, message |-> "Unexpected token } in JSON"],
      [status |-> 413, message |-> "request entity too large"] }

\* error.status || 500
ErrorStatus(err) == IF "status" \in DOMAIN err THEN err.status ELSE 500

\* lines 62-76: the global error handling middleware
GlobalErrorHandler(op, err) ==
    /\ Budget
    /\ Respond([Response(op, S(""), NoKeys, ErrorStatus(err), FALSE,
                    IF nodeEnv = "production"
                    THEN "Internal server error" ELSE err.message,
                    {}, {}, "global")
                EXCEPT !.stack = (nodeEnv # "production")])
    /\ UNCHANGED <<store, inflight, now, quota, tally, pristine, nodeEnv, server, requests, arrivals>>

\* the process is started in any environment
InitApp ==
    /\ store = <<>>
    /\ inflight = [p \in Procs |-> Idle]
    /\ last = NoResponse
    /\ nresp = 0
    /\ now = 0
    /\ quota = MaxAppOps
    /\ nodeEnv \in NodeEnvs
    /\ server = Serving
    /\ requests = NoRequests
    /\ arrivals = <<>>
    /\ tally = [k \in Keys |-> [ok |-> 0, conflict |-> 0, deleted |-> 0]]
    /\ pristine = [k \in Keys |-> {}]

NextApp ==
    \/ \E op \in {"create", "update"}, err \in AppErrors : GlobalErrorHandler(op, err)
    \/ \E p \in Procs, body \in CreateBodies : CreatePreCheck(p, body)
    \/ \E p \in Procs : CreateSave(p)
    \/ \E id \in PathIds : GetById(id)
    \/ \E id \in PathIds, body \in UpdateBodies : Update(id, body)
    \/ \E id \in PathIds : Delete(id)

SpecApp == InitApp /\ [][NextApp]_vars

\* C16: a response carries a stack only when the service runs in development
\* mode.
C16_StackOnlyInDevelopment == last.stack => nodeEnv = "development"

----------------------------------------------------------------------------
(* Properties of delete and get *)

\* C17: a successful delete returns every field of the addressed product with
\* the value stored just before, removes that product and leaves the other
\* products, and their order, as they were.
C17_DeleteReturnsAndRemoves ==
    [][(Answers("delete") /\ last'.status = 200) =>
        \E i \in 1..Len(store) :
            /\ store[i].productId = Trim(last'.id)
            /\ last'.data # {}
            /\ \A d \in last'.data :
                  \A f \in DOMAIN store[i] : f \in DOMAIN d /\ d[f] = store[i][f]
            /\ Len(store') = Len(store) - 1
            /\ \A j \in 1..Len(store') :
                  store'[j] = IF j < i THEN store[j] ELSE store[j + 1]]_vars

\* a product whose stock an update had set to 3 is deleted, another one stays
C17_Witness ==
    /\ last.op = "delete"
    /\ last.status = 200
    /\ Len(store) = 1
    /\ C13_Absent(store, last.id)
    /\ \E d \in last.data : d.stock = 3

\* the stored products whose productId is the text of id without its
\* surrounding whitespace
C18_Having(id) ==
    {i \in 1..Len(store) : store[i].productId = [ws |-> FALSE, s |-> id.s]}

----------------------------------------------------------------------------
(* The service with a running clock *)

Date2021 == <<"2", "0", "2", "1", "-", "0", "6", "-", "3", "0">>

\* matches the pattern of the schema, names no day of the calendar
DateNoDay == <<"2", "0", "2", "0", "-", "1", "3", "-", "0", "1">>

\* the clock runs from the second before 2020-01-31 begins to the second after
ClockStart == DateOf(Date2020).t - 1
ClockEnd == DateOf(Date2020).t + 1

\* a second passes
Tick ==
    /\ now < ClockEnd
    /\ now' = now + 1
    /\ UNCHANGED <<store, inflight, last, nresp, quota, tally, pristine, nodeEnv, server, requests, arrivals>>

ClockCreates ==
    { Base(IdA),
      ("expiryDate" :> Date2020) @@ Base(IdA),
      ("expiryDate" :> DateNoDay) @@ Base(IdA) }

ClockUpdates ==
    { [stock |-> 3],
      [expiryDate |-> Date2020],
      [expiryDate |-> Date2021],
      [expiryDate |-> <<>>] }

InitClock ==
    /\ store = <<>>
    /\ inflight = [p \in Procs |-> Idle]
    /\ last = NoResponse
    /\ nresp = 0
    /\ now = ClockStart
    /\ quota = MaxClockOps
    /\ nodeEnv = "development"
    /\ server = Serving
    /\ requests = NoRequests
    /\ arrivals = <<>>
    /\ tally = [k \in Keys |-> [ok |-> 0, conflict |-> 0, deleted |-> 0]]
    /\ pristine = [k \in Keys |-> {}]

NextClock ==
    \/ Tick
    \/ \E body \in ClockCreates : CreatePreCheck(Writer, body)
    \/ CreateSave(Writer)
    \/ GetById(IdA)
    \/ \E body \in ClockUpdates : Update(IdA, body)

SpecClock == InitClock /\ [][NextClock]_vars

\* the expiryDate of d is present and names a day that began before time t
C19_Earlier(d, t) ==
    /\ "expiryDate" \in DOMAIN d
    /\ d.expiryDate # <<>>
    /\ ~DateOf(d.expiryDate).invalid
    /\ DateOf(d.expiryDate).t < t

\* C19: in the product every response returns, isInStock is true exactly when
\* its stock is > 0 and isExpired is true exactly when its expiryDate is
\* present and earlier than the time of the response; and the product a get
\* returns has the stock and the expiryDate that are stored at that time.
C19_DerivedOnRead ==
    [][(last'.n # last.n /\ last'.success) =>
        \A d \in last'.data :
            /\ d.isInStock <=> d.stock > 0
            /\ d.isExpired <=> C19_Earlier(d, now')
            /\ last'.op = "get" =>
                  \E i \in C18_Having(last'.id) :
                     /\ d.stock = store'[i].stock
                     /\ ("expiryDate" \in DOMAIN d) <=> ("expiryDate" \in DOMAIN store'[i])
                     /\ "expiryDate" \in DOMAIN d => d.expiryDate = store'[i].expiryDate]_vars

\* a get returns as expired a product that was not expired when it was created
C19_Witness ==
    /\ last.op = "get"
    /\ last.status = 200
    /\ \E d \in last.data :
          /\ d.isExpired
          /\ "expiryDate" \in DOMAIN d
          /\ ~C19_Earlier(d, d.createdAt)

----------------------------------------------------------------------------
(* The order of the checks of create *)

\* C20: create checks presence, then an existing productId, then validity,
\* then inserts.  A create answered before its save is answered 400 when a
\* required field is missing (whether or not its productId is stored) and
\* otherwise 409, its productId being stored (whether or not its other fields
\* are valid); a create goes on to its save only with every required field
\* present and its productId not stored; the save answers 400 when a field is
\* invalid, otherwise 409 when the productId has been stored meanwhile,
\* otherwise 201 with the product inserted.
C20_CreateOrder ==
    [][/\ (Answers("create") /\ inflight' = inflight) =>
             /\ store' = store
             /\ IF C11_Missing(last'.body) # {}
                THEN last'.status = 400
                ELSE /\ last'.status = 409
                     /\ C18_Having(last'.body.productId) # {}
       /\ \A p \in Procs :
             (inflight[p].pc = "idle" /\ inflight'[p].pc = "save") =>
                /\ C11_Missing(inflight'[p].body) = {}
                /\ C18_Having(inflight'[p].body.productId) = {}
       /\ (Answers("create") /\ inflight' # inflight) =>
             IF ValidationErrors(NewProduct(last'.body)) # {}
             THEN last'.status = 400 /\ store' = store
             ELSE IF C18_Having(last'.body.productId) # {}
             THEN last'.status = 409 /\ store' = store
             ELSE last'.status = 201 /\ Len(store') = Len(store) + 1]_vars

\* a create whose productId is stored and whose category is invalid: 409
C20_Witness ==
    /\ last.op = "create"
    /\ last.status = 409
    /\ C11_Missing(last.body) = {}
    /\ ValidationErrors(NewProduct(last.body)) # {}
    /\ C18_Having(last.body.productId) # {}

----------------------------------------------------------------------------
(* The two reads of a listing *)

C21_Max(a, b) == IF a > b THEN a ELSE b

\* C21: a listing answered 200 with no write between its two reads returns
\* exactly min(limit, max(0, total - skip)) items, for the limit and the skip
\* it handed to the store and the total it reports.
C21_PageMatchesTotal ==
    (last.op = "list" /\ last.status = 200 /\ ~last.list.raced) =>
        Len(last.list.items) =
            C6_Min(last.list.limit,
                   C21_Max(0, last.list.pagination.total - last.list.skip))

----------------------------------------------------------------------------
(* src/seed.js: the seed utility, run with no request in progress *)

\* sampleProducts, lines 19-100
SampleProducts ==
    <<
      [productId |-> S("P001"), name |-> S("Amul Milk (1L)"), mrpPrice |-> 65,
       image |-> S("https://via.placeholder.com/100"), stock |-> 50,
       category |-> S("Dairy"), discounts |-> S("10% off"),
       expiryDate |-> <<"2", "0", "2", "5", "-", "0", "8", "-", "1", "5">>],
      [productId |-> S("P002"), name |-> S("Fresh Apples (1kg)"), mrpPrice |-> 180,
       image |-> S("https://via.placeholder.com/100"), stock |-> 30,
       category |-> S("Fruits"), discounts |-> S("5% off"),
       expiryDate |-> <<"2", "0", "2", "5", "-", "0", "8", "-", "1", "0">>],
      [productId |-> S("P003"), name |-> S("Fresh Broccoli (500g)"), mrpPrice |-> 70,
       image |-> S("https://via.placeholder.com/100"), stock |-> 20,
       category |-> S("Vegetables"), discounts |-> S("15% off"),
       expiryDate |-> <<"2", "0", "2", "5", "-", "0", "8", "-", "1", "2">>],
      [productId |-> S("P004"), name |-> S("Fortune Sunflower Oil (1L)"), mrpPrice |-> 160,
       image |-> S("https://via.placeholder.com/100"), stock |-> 40,
       category |-> S("Grocery"), discounts |-> S("10% cashback"),
       expiryDate |-> <<"2", "0", "2", "6", "-", "0", "6", "-", "3", "0">>],
      [productId |-> S("P005"), name |-> S("Britannia Bread (400g)"), mrpPrice |-> 50,
       image |-> S("https://via.placeholder.com/100"), stock |-> 60,
       category |-> S("Bakery"), discounts |-> S("Buy 1 Get 1 Free"),
       expiryDate |-> <<"2", "0", "2", "5", "-", "0", "8", "-", "2", "8">>],
      [productId |-> S("P006"), name |-> S("Coca Cola (500ml)"), mrpPrice |-> 40,
       image |-> S("https://via.placeholder.com/100"), stock |-> 100,
       category |-> S("Beverages"), discounts |-> S("5% off"),
       expiryDate |-> <<"2", "0", "2", "5", "-", "1", "2", "-", "3", "1">>],
      [productId |-> S("P007"), name |-> S("Lays Chips (50g)"), mrpPrice |-> 20,
       image |-> S("https://via.placeholder.com/100"), stock |-> 80,
       category |-> S("Snacks"), discounts |-> S("Buy 2 Get 1 Free"),
       expiryDate |-> <<"2", "0", "2", "5", "-", "0", "6", "-", "1", "5">>],
      [productId |-> S("P008"), name |-> S("Basmati Rice (5kg)"), mrpPrice |-> 450,
       image |-> S("https://via.placeholder.com/100"), stock |-> 25,
       category |-> S("Grocery"), discounts |-> S("8% off"),
       expiryDate |-> <<"2", "0", "2", "6", "-", "0", "1", "-", "0", "1">>] >>

\* variant: nothing is deleted
DeleteMany_None(st) == st

\* Product.deleteMany({})
DeleteMany(st) == <<>>

Seeder == "c1"

\* what the collection may hold before the run: nothing, a product of another
\* id, an older product under the id of a sample product, or both
PriorContents ==
    { <<>>,
      <<ApplySet(NewProduct(Base(IdA)), [createdAt |-> 1, updatedAt |-> 1])>>,
      <<ApplySet(NewProduct(Base(S("P001"))), [createdAt |-> 1, updatedAt |-> 2])>>,
      <<ApplySet(NewProduct(Base(S("P003"))), [createdAt |-> 1, updatedAt |-> 1]),
        ApplySet(NewProduct(Base(IdB)), [createdAt |-> 2, updatedAt |-> 2])>> }

\* the time of the run, after every earlier write
SeedNow == 3

InitSeed ==
    /\ store \in PriorContents
    /\ inflight = [p \in Procs |->
            IF p = Seeder THEN [pc |-> "clear", k |-> 1, failed |-> {}] ELSE Idle]
    /\ last = NoResponse
    /\ nresp = 0
    /\ now = SeedNow
    /\ quota = 0
    /\ nodeEnv = "development"
    /\ server = Serving
    /\ requests = NoRequests
    /\ arrivals = <<>>
    /\ tally = [k \in Keys |-> [ok |-> 0, conflict |-> 0, deleted |-> 0]]
    /\ pristine = [k \in Keys |-> {}]

\* line 129: the existing products are removed
SeedClear ==
    /\ inflight[Seeder].pc = "clear"
    /\ store' = DeleteMany(store)
    /\ inflight' = [inflight EXCEPT ![Seeder].pc = "insert"]
    /\ UNCHANGED <<last, nresp, now, quota, tally, pristine, nodeEnv, server, requests, arrivals>>

\* line 129 throws (the store fails): lines 151-154 rethrow, nothing is inserted
SeedClearFails ==
    /\ inflight[Seeder].pc = "clear"
    /\ inflight' = [inflight EXCEPT ![Seeder].pc = "failed"]
    /\ UNCHANGED <<store, last, nresp, now, quota, tally, pristine, nodeEnv, server, requests, arrivals>>

\* lines 135-143: the next sample product is saved; a validation error or a
\* duplicate key is caught and the loop goes on
SeedSave ==
    /\ inflight[Seeder].pc = "insert"
    /\ inflight[Seeder].k <= Len(SampleProducts)
    /\ LET k == inflight[Seeder].k
           doc == NewProduct(SampleProducts[k])
           saved == ApplySet(doc, [createdAt |-> now, updatedAt |-> now])
       IN  IF ValidationErrors(doc) # {} \/ DuplicateKey(store, doc)
           THEN /\ inflight' = [inflight EXCEPT ![Seeder].k = k + 1,
                                                ![Seeder].failed = @ \cup {k}]
                /\ UNCHANGED store
           ELSE /\ store' = Append(store, saved)
                /\ inflight' = [inflight EXCEPT ![Seeder].k = k + 1]
    /\ UNCHANGED <<last, nresp, now, quota, tally, pristine, nodeEnv, server, requests, arrivals>>

\* the save is refused by the store (a failed write): caught at line 141
SeedSaveFails ==
    /\ inflight[Seeder].pc = "insert"
    /\ inflight[Seeder].k <= Len(SampleProducts)
    /\ inflight' = [inflight EXCEPT ![Seeder].k = @ + 1,
                                    ![Seeder].failed = @ \cup {inflight[Seeder].k}]
    /\ UNCHANGED <<store, last, nresp, now, quota, tally, pristine, nodeEnv, server, requests, arrivals>>

\* line 145: the loop is over
SeedDone ==
    /\ inflight[Seeder].pc = "insert"
    /\ inflight[Seeder].k > Len(SampleProducts)
    /\ inflight' = [inflight EXCEPT ![Seeder].pc = "done"]
    /\ UNCHANGED <<store, last, nresp, now, quota, tally, pristine, nodeEnv, server, requests, arrivals>>

NextSeed ==
    \/ SeedClear
    \/ SeedClearFails
    \/ SeedSave
    \/ SeedSaveFails
    \/ SeedDone

SpecSeed == InitSeed /\ [][NextSeed]_vars

\* the fields of a document apart from its timestamps
C22_Fields(d) == [f \in DOMAIN d \ {"createdAt", "updatedAt"} |-> d[f]]

\* C22: when the seed run has completed, every stored product was inserted by
\* the run from a sample product (none is older than the run), no two share a
\* productId, and the sample products stored are exactly those whose insert
\* did not fail: a failed insert did not stop the later ones.
C22_SeedReplaces ==
    inflight[Seeder].pc = "done" =>
        /\ \A i \in 1..Len(store) :
              /\ store[i].createdAt = SeedNow
              /\ \E k \in 1..Len(SampleProducts) :
                    C22_Fields(store[i]) = NewProduct(SampleProducts[k])
        /\ \A i, j \in 1..Len(store) :
              i # j => store[i].productId # store[j].productId
        /\ {store[i].productId : i \in 1..Len(store)} =
              {SampleProducts[k].productId :
                  k \in (1..Len(SampleProducts)) \ inflight[Seeder].failed}

\* the first insert failed, the seven later ones were made
C22_Witness ==
    /\ inflight[Seeder].pc = "done"
    /\ inflight[Seeder].failed = {1}
    /\ Len(store) = 7

----------------------------------------------------------------------------
(* Failed writes *)

\* C23: the step that answers a create, an update or a delete with 400, 404
\* or 409 leaves the store as it was, and so does the step that takes a create
\* from its checks to its save.
C23_FailedWriteNoEffect ==
    [][/\ (/\ last'.n # last.n
           /\ last'.op \in {"create", "update", "delete"}
           /\ last'.status \in {400, 404, 409}) => store' = store
       /\ (\E p \in Procs : inflight[p].pc = "idle" /\ inflight'[p].pc = "save")
             => store' = store]_vars

\* a create is answered 409 by the index and the product that holds the
\* productId, created from another body, is still stored
C23_Witness ==
    /\ last.op = "create"
    /\ last.status = 409
    /\ last.via = "index"
    /\ \E i \in C18_Having(last.body.productId) :
          store[i].name.s # last.body.name.s

----------------------------------------------------------------------------
(* The handlers over a store that may fail: one response per request *)

LiveOps == {"create", "list", "get", "update", "delete"}

\* how an awaited store operation settles.  A rejection is any error of the
\* driver; a timeout (serverSelectionTimeoutMS, socketTimeoutMS of
\* src/index.js lines 95-96, or the buffering timeout) is a rejection too.
Failures == {"rejected", "timeout"}

\* the results the store can give to the await at pc of the handler of op
StoreResults(op, pc) ==
    Failures \cup
    CASE op = "create" /\ pc = "findOne" -> {"doc", "null"}
      [] op = "create" /\ pc = "save" -> {"doc", "validation", "duplicate"}
      [] op = "update" -> {"doc", "null", "validation"}
      [] op = "list" -> {"doc"}
      [] OTHER -> {"doc", "null"}

\* variant: a handler with no catch for a timeout
AfterAwait_Hang(op, pc, result) ==
    IF result = "timeout" THEN [status |-> 0, next |-> "hung"]
    ELSE IF result = "rejected" THEN [status |-> 500, next |-> "idle"]
    ELSE [status |-> 200, next |-> "idle"]

\* the handler of op resumes after the await at pc: the status it answers
\* with (0: none yet) and where it goes on
AfterAwait(op, pc, result) ==
    CASE result \in Failures -> [status |-> 500, next |-> "idle"]
      [] result = "validation" -> [status |-> 400, next |-> "idle"]
      [] result = "duplicate" -> [status |-> 409, next |-> "idle"]
      [] result = "null" /\ op = "create" -> [status |-> 0, next |-> "save"]
      [] result = "null" /\ op # "create" -> [status |-> 404, next |-> "idle"]
      [] result = "doc" /\ op = "create" /\ pc = "findOne" ->
            [status |-> 409, next |-> "idle"]
      [] result = "doc" /\ op = "create" /\ pc = "save" ->
            [status |-> 201, next |-> "idle"]
      [] OTHER -> [status |-> 200, next |-> "idle"]

\* the first await of the handler of op
FirstAwait(op) ==
    CASE op = "create" -> "findOne"
      [] op = "list" -> "all"
      [] op = "get" -> "findOne"
      [] op = "update" -> "findOneAndUpdate"
      [] OTHER -> "findOneAndDelete"

LiveResponse(op, status, result) ==
    Response(op, S(""), NoKeys, status, status \in {200, 201}, "", {}, {}, result)

\* a request arrives.  A request that fails a check made before any await
\* (blank id, missing fields, changed productId) is answered 400 at once.
LiveReceive(p, op, bad) ==
    /\ inflight[p].pc = "idle"
    /\ Budget
    /\ IF bad /\ op # "list"
       THEN /\ Respond(LiveResponse(op, 400, "check"))
            /\ inflight' = [inflight EXCEPT ![p].got = @ + 1, ![p].sent = @ + 1]
       ELSE /\ inflight' = [inflight EXCEPT
                    ![p].pc = FirstAwait(op), ![p].op = op, ![p].got = @ + 1,
                    ![p].reads = IF op = "list" THEN 2 ELSE 1]
            /\ UNCHANGED <<last, nresp>>
    /\ UNCHANGED <<store, now, quota, tally, pristine, nodeEnv, server, requests, arrivals>>

\* the store operation a handler awaits settles and the handler resumes
LiveSettle(p, result) ==
    /\ inflight[p].pc \notin {"idle", "hung"}
    /\ result \in StoreResults(inflight[p].op, inflight[p].pc)
    /\ LET r == inflight[p]
           a == AfterAwait(r.op, r.pc, result)
       IN  IF r.op = "list" /\ result \notin Failures /\ r.reads = 2
           THEN \* Promise.all waits for the other read
                /\ inflight' = [inflight EXCEPT ![p].reads = 1]
                /\ UNCHANGED <<last, nresp>>
           ELSE IF a.status = 0
           THEN /\ inflight' = [inflight EXCEPT ![p].pc = a.next]
                /\ UNCHANGED <<last, nresp>>
           ELSE /\ Respond(LiveResponse(r.op, a.status, result))
                /\ inflight' = [inflight EXCEPT
                        ![p].pc = a.next,
                        ![p].sent = IF a.status = 0 THEN @ ELSE @ + 1,
                        ![p].reads = 0,
                        ![p].stray = @ + (r.reads - 1)]
    /\ UNCHANGED <<store, now, quota, tally, pristine, nodeEnv, server, requests, arrivals>>

\* the read that Promise.all no longer waits for settles: nobody listens
LiveStray(p) ==
    /\ inflight[p].stray > 0
    /\ inflight' = [inflight EXCEPT ![p].stray = @ - 1]
    /\ UNCHANGED <<store, last, nresp, now, quota, tally, pristine, nodeEnv, server, requests, arrivals>>

InitLive ==
    /\ store = <<>>
    /\ inflight = [p \in Procs |->
            [pc |-> "idle", op |-> "none", got |-> 0, sent |-> 0, reads |-> 0,
             stray |-> 0]]
    /\ last = NoResponse
    /\ nresp = 0
    /\ now = 0
    /\ quota = MaxLiveOps
    /\ nodeEnv = "development"
    /\ server = Serving
    /\ requests = NoRequests
    /\ arrivals = <<>>
    /\ tally = [k \in Keys |-> [ok |-> 0, conflict |-> 0, deleted |-> 0]]
    /\ pristine = [k \in Keys |-> {}]

NextLive ==
    \/ \E p \in Procs, op \in LiveOps, bad \in BOOLEAN : LiveReceive(p, op, bad)
    \/ \E p \in Procs, result \in Failures \cup {"doc", "null", "validation", "duplicate"} :
          LiveSettle(p, result)
    \/ \E p \in Procs : LiveStray(p)

\* every store operation settles (the driver's timeouts see to it) and the
\* event loop runs the handler that awaits it
FairLive ==
    \A p \in Procs :
        WF_vars(\E result \in {"doc", "null", "validation", "duplicate"} \cup Failures :
                    LiveSettle(p, result))

SpecLive == InitLive /\ [][NextLive]_vars /\ FairLive

\* on each connection the responses sent are the requests received, less the
\* one being handled
C24_Counts ==
    \A p \in Procs :
        inflight[p].got = inflight[p].sent + (IF inflight[p].pc = "idle" THEN 0 ELSE 1)

\* a step sends at most one response, and a failure or a timeout of the store
\* is answered 500
C24_Step ==
    /\ nresp' \in {nresp, nresp + 1}
    /\ \A p \in Procs : inflight'[p].sent \in {inflight[p].sent, inflight[p].sent + 1}
    /\ (last'.n # last.n /\ last'.via \in Failures) => last'.status = 500

\* C24: every request gets exactly one response: the responses of a connection
\* never outnumber its requests, every request being handled is eventually
\* answered, and a failure or a timeout of the store is answered 500.
C24_ExactlyOneResponse ==
    /\ [](C24_Counts)
    /\ [][C24_Step]_vars
    /\ \A p \in Procs : (inflight[p].pc # "idle") ~> (inflight[p].pc = "idle")

\* the save of a create timed out and the request was answered 500
C24_Witness ==
    /\ last.op = "create"
    /\ last.via = "timeout"
    /\ last.status = 500
    /\ \E p \in Procs : inflight[p].got = 1 /\ inflight[p].sent = 1

----------------------------------------------------------------------------
(* The rate limiter of src/middleware/index.js *)

\* createRateLimiter(windowMs, maxRequests), here with a window of 3 ms and
\* 2 requests instead of the defaults (15 minutes, 100)
WindowMs == 3
MaxRequests == 2

ClientIPs == {"ip1", "ip2"}

\* timestamps.filter(timestamp => timestamp > windowStart)
Filter(timestamps, windowStart) ==
    SelectSeq(timestamps, LAMBDA timestamp : timestamp > windowStart)

\* "Clean old entries": every client's list is filtered, an empty list is deleted
Clean(reqs, windowStart) ==
    LET kept == {ip \in DOMAIN reqs : Filter(reqs[ip], windowStart) # <<>>}
    IN  [ip \in kept |-> Filter(reqs[ip], windowStart)]

\* variant: the request is recorded before the check
Limit_RecordAll(reqs, clientIP, t) ==
    LET cleaned == Clean(reqs, t - WindowMs)
        mine == IF clientIP \in DOMAIN cleaned THEN cleaned[clientIP] ELSE <<>>
        all == [ip \in DOMAIN cleaned \cup {clientIP} |->
                    IF ip = clientIP THEN Append(mine, t) ELSE cleaned[ip]]
    IN  [status |-> IF Len(mine) >= MaxRequests THEN 429 ELSE 0, requests |-> all]

\* the middleware on a request of clientIP at time t: the status it answers
\* with (0: none, the request goes to next()) and the Map it leaves
Limit(reqs, clientIP, t) ==
    LET cleaned == Clean(reqs, t - WindowMs)
        has == [ip \in DOMAIN cleaned \cup {clientIP} |->
                    IF ip \in DOMAIN cleaned THEN cleaned[ip] ELSE <<>>]
    IN  IF Len(has[clientIP]) >= MaxRequests
        THEN [status |-> 429, requests |-> has]
        ELSE [status |-> 0,
              requests |-> [has EXCEPT ![clientIP] = Append(@, t)]]

\* a request of clientIP passes through the middleware
RateLimiter(clientIP) ==
    /\ Len(arrivals) < MaxArrivals
    /\ LET r == Limit(requests, clientIP, now)
       IN  /\ requests' = r.requests
           /\ arrivals' = Append(arrivals,
                    [ip |-> clientIP, at |-> now, forwarded |-> r.status = 0])
           /\ IF r.status = 429
              THEN Respond(Response("limit", S(""), NoKeys, 429, FALSE,
                                    "Too many requests", {}, {}, clientIP))
              ELSE UNCHANGED <<last, nresp>>
    /\ UNCHANGED <<store, inflight, now, quota, tally, pristine, nodeEnv, server>>

\* Date.now() advances by a millisecond
LimitTick ==
    /\ now < LimitEnd
    /\ now' = now + 1
    /\ UNCHANGED <<store, inflight, last, nresp, quota, tally, pristine, nodeEnv,
                   server, requests, arrivals>>

InitLimit ==
    /\ store = <<>>
    /\ inflight = [p \in Procs |-> Idle]
    /\ last = NoResponse
    /\ nresp = 0
    /\ now = 0
    /\ quota = MaxArrivals
    /\ nodeEnv = "development"
    /\ server = Serving
    /\ requests = NoRequests
    /\ arrivals = <<>>
    /\ tally = [k \in Keys |-> [ok |-> 0, conflict |-> 0, deleted |-> 0]]
    /\ pristine = [k \in Keys |-> {}]

NextLimit ==
    \/ \E clientIP \in ClientIPs : RateLimiter(clientIP)
    \/ LimitTick

SpecLimit == InitLimit /\ [][NextLimit]_vars

\* the requests of ip among the first n that were forwarded and arrived in
\* the windowMs milliseconds that end with millisecond t
C25_Forwarded(ip, n, t) ==
    {i \in 1..n : /\ arrivals[i].ip = ip
                  /\ arrivals[i].forwarded
                  /\ arrivals[i].at > t - WindowMs
                  /\ arrivals[i].at <= t}

\* C25: for each client IP at most maxRequests of the requests that arrive in
\* any windowMs milliseconds are forwarded; a request is answered 429 only when
\* maxRequests requests of the same client were forwarded in the windowMs
\* milliseconds up to it, so neither a request answered 429 nor a request of
\* another client makes a request be rejected.
C25_RateLimit ==
    /\ \A ip \in ClientIPs, t \in 0..now :
          Cardinality(C25_Forwarded(ip, Len(arrivals), t)) <= MaxRequests
    /\ \A i \in 1..Len(arrivals) :
          ~arrivals[i].forwarded =>
              Cardinality(C25_Forwarded(arrivals[i].ip, i - 1, arrivals[i].at))
                  = MaxRequests
    /\ \A ip \in DOMAIN requests :
          Len(requests[ip]) <=
              Cardinality({i \in 1..Len(arrivals) :
                              arrivals[i].ip = ip /\ arrivals[i].forwarded})

\* a client was answered 429, the other client's request in the same
\* millisecond was forwarded, and once the window had passed the first
\* client's request was forwarded again
C25_Witness ==
    \E i, j, k \in 1..Len(arrivals) :
        /\ i < j /\ j < k
        /\ ~arrivals[i].forwarded
        /\ arrivals[j].ip # arrivals[i].ip
        /\ arrivals[j].at = arrivals[i].at
        /\ arrivals[j].forwarded
        /\ arrivals[k].ip = arrivals[i].ip
        /\ arrivals[k].forwarded

----------------------------------------------------------------------------
(* Start of the process: connectDB, then app.listen (src/index.js) *)

Results == {"doc", "null", "validation", "duplicate"} \cup Failures

\* await mongoose.connect(...) inside connectDB.  When it rejects the catch
\* logs the error and calls process.exit(1) in production only; in any other
\* environment connectDB returns normally.
ConnectDB(connected) ==
    /\ server.pc = "connectDB"
    /\ server' =
          IF connected
          THEN [server EXCEPT !.db = "connected", !.pc = "listen"]
          ELSE [server EXCEPT !.db = "failed",
                              !.pc = IF nodeEnv = "production" THEN "exited" ELSE "listen"]
    /\ UNCHANGED <<store, inflight, last, nresp, now, quota, tally, pristine,
                   nodeEnv, requests, arrivals>>

\* app.listen(PORT): the port is bound, or the server's 'error' event calls
\* process.exit(1)
Listen(bound) ==
    /\ server.pc = "listen"
    /\ server' =
          IF bound
          THEN [server EXCEPT !.listening = TRUE, !.pc = "serving"]
          ELSE [server EXCEPT !.pc = "exited"]
    /\ UNCHANGED <<store, inflight, last, nresp, now, quota, tally, pristine,
                   nodeEnv, requests, arrivals>>

\* the listening server takes a request
StartReceive(p, op, bad) ==
    /\ server.listening
    /\ LiveReceive(p, op, bad)

\* without a connection every store operation is buffered until it times out
StartSettle(p, result) ==
    /\ server.db # "connected" => result = "timeout"
    /\ LiveSettle(p, result)

InitStart ==
    /\ store = <<>>
    /\ inflight = [p \in Procs |->
            [pc |-> "idle", op |-> "none", got |-> 0, sent |-> 0, reads |-> 0,
             stray |-> 0]]
    /\ last = NoResponse
    /\ nresp = 0
    /\ now = 0
    /\ quota = MaxLiveOps
    /\ nodeEnv \in NodeEnvs
    /\ server = [pc |-> "connectDB", db |-> "none", listening |-> FALSE]
    /\ requests = NoRequests
    /\ arrivals = <<>>
    /\ tally = [k \in Keys |-> [ok |-> 0, conflict |-> 0, deleted |-> 0]]
    /\ pristine = [k \in Keys |-> {}]

NextStart ==
    \/ \E connected \in BOOLEAN : ConnectDB(connected)
    \/ \E bound \in BOOLEAN : Listen(bound)
    \/ \E p \in Procs, op \in LiveOps, bad \in BOOLEAN : StartReceive(p, op, bad)
    \/ \E p \in Procs, result \in Results : StartSettle(p, result)
    \/ \E p \in Procs : LiveStray(p)

SpecStart == InitStart /\ [][NextStart]_vars

\* C26: the server listens only when the database connection has been
\* established: it never listens after a connection attempt that failed.
C26_ListenAfterConnect == server.listening => server.db = "connected"

====
